---- MODULE Spec2Model ----
(***************************************************************************)
(* tools/make_pubs_md.py: BibTeX files -> publications_by_year.md.         *)
(*                                                                         *)
(* A text (a Python str) is a sequence of characters, each character a     *)
(* string; positions are 1-based here and 0-based in the source.  The two  *)
(* curly quotation marks U+201C and U+201D of format_item are the          *)
(* characters LDQ and RDQ.                                                 *)
(***************************************************************************)
EXTENDS Integers, Sequences, FiniteSets, TLC

LDQ == "<ldquo>"
RDQ == "<rdquo>"

Digits == <<"0", "1", "2", "3", "4", "5", "6", "7", "8", "9">>
UpperCase == <<"A", "B", "C", "D", "E", "F", "G", "H", "I", "J", "K", "L", "M",
               "N", "O", "P", "Q", "R", "S", "T", "U", "V", "W", "X", "Y", "Z">>
LowerCase == <<"a", "b", "c", "d", "e", "f", "g", "h", "i", "j", "k", "l", "m",
               "n", "o", "p", "q", "r", "s", "t", "u", "v", "w", "x", "y", "z">>

\* The characters of the model in code point order (Python compares str by code point).
Chars == <<"\t", "\n", " ", "\"", "#", "&", "(", ")", "*", ",", "-", ".", "/">>
         \o Digits \o <<":", "=", "@">> \o UpperCase \o <<"[", "\\", "]", "_">>
         \o LowerCase \o <<"{", "}", LDQ, RDQ>>

CharSet == {Chars[i] : i \in DOMAIN Chars}

Ord == [c \in CharSet |-> CHOOSE i \in DOMAIN Chars : Chars[i] = c]

DigitSet == {Digits[i] : i \in DOMAIN Digits}
DigitVal == [c \in DigitSet |-> (CHOOSE i \in DOMAIN Digits : Digits[i] = c) - 1]

\* regex classes \s, \d, \w
IsSpace(c) == c \in {" ", "\t", "\n"}
IsDigit(c) == c \in DigitSet
IsWord(c) == \/ c \in DigitSet
             \/ c = "_"
             \/ \E i \in DOMAIN UpperCase : c = UpperCase[i] \/ c = LowerCase[i]

\* str.lower(), one character
LowerChar(c) ==
  IF \E i \in DOMAIN UpperCase : UpperCase[i] = c
  THEN LowerCase[CHOOSE i \in DOMAIN UpperCase : UpperCase[i] = c]
  ELSE c

Lower(s) == [i \in DOMAIN s |-> LowerChar(s[i])]

Max(S) == CHOOSE x \in S : \A y \in S : x >= y

\* the first / the last of the positions S, 0 when there is none
FirstPos(S) == IF S = {} THEN 0 ELSE CHOOSE i \in S : \A k \in S : i <= k

LastPos(S) == IF S = {} THEN 0 ELSE Max(S)

\* str.find(c, from): the first position >= from holding c, 0 when there is none
Find(s, c, from) ==
  LET P(i) == s[i] = c
  IN FirstPos({pos \in from..Len(s) : P(pos)})

\* str.strip()
Strip(s) ==
  LET P(i) == ~IsSpace(s[i])
      a == FirstPos({pos \in 1..Len(s) : P(pos)})
  IN IF a = 0 THEN <<>> ELSE SubSeq(s, a, LastPos({pos \in 1..Len(s) : P(pos)}))

\* str.rstrip(c)
RStripChar(s, c) ==
  LET P(i) == s[i] # c
  IN SubSeq(s, 1, LastPos({pos \in 1..Len(s) : P(pos)}))

\* first position >= p that holds no whitespace (Len(s) + 1 when there is none)
SkipSpace(s, p) ==
  LET P(i) == ~IsSpace(s[i])
      a == FirstPos({pos \in p..Len(s) : P(pos)})
  IN IF a = 0 THEN Len(s) + 1 ELSE a

\* first position >= p that holds no word character (Len(s) + 1 when there is none)
SkipWord(s, p) ==
  LET P(i) == ~IsWord(s[i])
      a == FirstPos({pos \in p..Len(s) : P(pos)})
  IN IF a = 0 THEN Len(s) + 1 ELSE a

RECURSIVE Join(_, _)
\* sep.join(parts)
Join(parts, sep) ==
  IF parts = <<>> THEN <<>>
  ELSE IF Len(parts) = 1 THEN parts[1]
  ELSE parts[1] \o sep \o Join(Tail(parts), sep)

\* dict.get(name, "")
Get(fields, name) == IF name \in DOMAIN fields THEN fields[name] ELSE <<>>

\* dict[name] = value
Put(fields, name, value) ==
  [k \in (DOMAIN fields) \cup {name} |-> IF k = name THEN value ELSE fields[k]]

EmptyFields == [k \in {} |-> <<>>]

(***************************************************************************)
(* _strip_outer_braces_or_quotes, _unescape_latex                          *)
(***************************************************************************)
_strip_outer_braces_or_quotes(s0) ==
  LET s == Strip(s0)
  IN IF /\ Len(s) >= 2
        /\ \/ s[1] = "{" /\ s[Len(s)] = "}"
           \/ s[1] = "\"" /\ s[Len(s)] = "\""
     THEN Strip(SubSeq(s, 2, Len(s) - 1))
     ELSE s

\* first position >= p where the two characters "\\&" start (0 when there is none)
FindAmp(s, p) ==
  LET P(i) == s[i] = "\\" /\ s[i + 1] = "&"
  IN FirstPos({pos \in p..(Len(s) - 1) : P(pos)})

RECURSIVE ReplaceAmpFrom(_, _)
ReplaceAmpFrom(s, p) ==
  LET a == FindAmp(s, p)
  IN IF a = 0 THEN SubSeq(s, p, Len(s))
     ELSE SubSeq(s, p, a - 1) \o <<"&">> \o ReplaceAmpFrom(s, a + 2)

\* s.replace("\\&", "&")
ReplaceAmp(s) == ReplaceAmpFrom(s, 1)

\* first position >= p that holds whitespace (Len(s) + 1 when there is none)
FindSpace(s, p) ==
  LET P(i) == IsSpace(s[i])
      a == FirstPos({pos \in p..Len(s) : P(pos)})
  IN IF a = 0 THEN Len(s) + 1 ELSE a

RECURSIVE CollapseFrom(_, _)
CollapseFrom(s, p) ==
  LET w == FindSpace(s, p)
  IN IF w > Len(s) THEN SubSeq(s, p, Len(s))
     ELSE SubSeq(s, p, w - 1) \o <<" ">> \o CollapseFrom(s, SkipSpace(s, w))

\* re.sub(r"\s+", " ", s)
CollapseSpace(s) == CollapseFrom(s, 1)

_unescape_latex(s) == Strip(CollapseSpace(ReplaceAmp(s)))

(***************************************************************************)
(* _split_entries                                                          *)
(***************************************************************************)
\* the depth after the character c is read at depth d (source lines 55-58)
DepthStep(c, d) == IF c = "{" THEN d + 1 ELSE IF c = "}" THEN d - 1 ELSE d

\* first position >= p that holds a brace (Len(s) + 1 when there is none)
FindBrace(s, p) ==
  LET P(i) == s[i] \in {"{", "}"}
      a == FirstPos({pos \in p..Len(s) : P(pos)})
  IN IF a = 0 THEN Len(s) + 1 ELSE a

\* the first closing brace from j on, whatever the depth
ScanCloseFirst(text, j, depth) == Find(text, "}", j)

RECURSIVE ScanClose(_, _, _)
\* the inner while loop from position j at the given depth: the position of the
\* brace at which depth returns to 0, 0 when the text ends first (the while's
\* else branch).  Characters other than braces leave depth as it is.
ScanClose(text, j, depth) ==
  LET b == FindBrace(text, j)
  IN IF b > Len(text) THEN 0
     ELSE LET d == DepthStep(text[b], depth)
          IN IF d = 0 /\ text[b] = "}" THEN b ELSE ScanClose(text, b + 1, d)

RECURSIVE SplitFrom(_, _)
\* the outer while loop from position i on
SplitFrom(text, i) ==
  IF i > Len(text) THEN <<>>
  ELSE LET at == Find(text, "@", i)
       IN IF at = 0 THEN <<>>
          ELSE LET lb == Find(text, "{", at)
               IN IF lb = 0 THEN <<>>
                  ELSE LET j == ScanClose(text, lb, 0)
                       IN IF j = 0 THEN <<>>
                          ELSE <<Strip(SubSeq(text, at, j))>> \o SplitFrom(text, j + 1)

_split_entries(bib_text) == SplitFrom(bib_text, 1)

(***************************************************************************)
(* parse_bib_file                                                          *)
(***************************************************************************)
NoMatch == [ok |-> FALSE]

\* header_re.search(e): ^@(\w+)\s*\{\s*([^,]+)\s*,
\* type: group 1; key: group 2; comma: e.find(",", m.end(2))
HeaderMatch(e) ==
  IF ~(Len(e) >= 2 /\ e[1] = "@" /\ IsWord(e[2])) THEN NoMatch
  ELSE LET w == SkipWord(e, 2)
           q == SkipSpace(e, w)
       IN IF ~(q <= Len(e) /\ e[q] = "{") THEN NoMatch
          ELSE LET c == Find(e, ",", q + 1)
               IN IF c = 0 \/ c = q + 1 THEN NoMatch
                  ELSE LET k0 == SkipSpace(e, q + 1)
                           \* \s* gives one character back when only whitespace
                           \* precedes the comma
                           k == IF k0 >= c THEN c - 1 ELSE k0
                       IN [ok |-> TRUE,
                           type |-> SubSeq(e, 2, w - 1),
                           key |-> SubSeq(e, k, c - 1),
                           comma |-> c]

RECURSIVE BraceScan(_, _, _)
\* \{(?:[^{}]|\{[^{}]*\})*\} from inside the opening brace: the position of the
\* closing brace, 0 when the alternative does not match; inner: inside a nested
\* group \{[^{}]*\}
BraceScan(b, p, inner) ==
  LET q == FindBrace(b, p)
  IN IF q > Len(b) THEN 0
     ELSE IF inner
          THEN IF b[q] = "{" THEN 0 ELSE BraceScan(b, q + 1, FALSE)
          ELSE IF b[q] = "{" THEN BraceScan(b, q + 1, TRUE) ELSE q

\* the value group of field_re at position t, after "=" at position eq:
\* <<first, last>> of the value, <<0, 0>> when no alternative matches
ValueSpan(b, eq, t) ==
  LET brace == IF t <= Len(b) /\ b[t] = "{" THEN BraceScan(b, t + 1, FALSE) ELSE 0
      quote == IF t <= Len(b) /\ b[t] = "\"" THEN Find(b, "\"", t + 1) ELSE 0
      comma == Find(b, ",", t)
  IN IF brace # 0 THEN <<t, brace>>
     ELSE IF quote # 0 THEN <<t, quote>>
     ELSE IF t <= Len(b) /\ b[t] # ","
          THEN <<t, IF comma = 0 THEN Len(b) ELSE comma - 1>>
     \* \s* gives back one whitespace character, which [^,]+ takes
     ELSE IF t > eq + 1 THEN <<t - 1, t - 1>>
     ELSE <<0, 0>>

\* field_re.match at position s:
\* (\w+)\s*=\s*(\{(?:[^{}]|\{[^{}]*\})*\}|\"[^\"]*\"|[^,]+)\s*,?
FieldMatch(b, s) ==
  IF ~(s <= Len(b) /\ IsWord(b[s])) THEN NoMatch
  ELSE LET w == SkipWord(b, s)
           eq == SkipSpace(b, w)
       IN IF ~(eq <= Len(b) /\ b[eq] = "=") THEN NoMatch
          ELSE LET v == ValueSpan(b, eq, SkipSpace(b, eq + 1))
                   e2 == SkipSpace(b, v[2] + 1)
               IN IF v[1] = 0 THEN NoMatch
                  ELSE [ok |-> TRUE,
                        name |-> SubSeq(b, s, w - 1),
                        value |-> SubSeq(b, v[1], v[2]),
                        end |-> IF e2 <= Len(b) /\ b[e2] = "," THEN e2 ELSE e2 - 1]

\* the stored value of a matched field (source lines 96-98)
FieldValue(raw) == _unescape_latex(_strip_outer_braces_or_quotes(Strip(raw)))

RECURSIVE FindFields(_, _, _)
\* for fm in field_re.finditer(body): fields[k] = v
FindFields(b, s, fields) ==
  IF s > Len(b) THEN fields
  ELSE LET m == FieldMatch(b, s)
       IN IF m.ok
          THEN FindFields(b, m.end + 1, Put(fields, Lower(m.name), FieldValue(m.value)))
          ELSE FindFields(b, s + 1, fields)

\* body = e[start + 1 :].rstrip("}").strip()
EntryBody(e, start) == Strip(RStripChar(SubSeq(e, start + 1, Len(e)), "}"))

\* one raw chunk: <<BibEntry>>, or <<>> when the header does not match
ParseEntry(e) ==
  LET m == HeaderMatch(e)
  IN IF ~m.ok THEN <<>>
     ELSE <<[key |-> Strip(m.key),
             entry_type |-> Lower(m.type),
             fields |-> FindFields(EntryBody(e, m.comma), 1, EmptyFields)]>>

RECURSIVE ParseAll(_)
ParseAll(raw_entries) ==
  IF raw_entries = <<>> THEN <<>>
  ELSE ParseEntry(Head(raw_entries)) \o ParseAll(Tail(raw_entries))

\* a source file: whether path.exists(), and its text
parse_bib_file(file) ==
  IF ~file.exists THEN <<>> ELSE ParseAll(_split_entries(file.text))

(***************************************************************************)
(* Field names and fixed texts                                             *)
(***************************************************************************)
K_year == <<"y","e","a","r">>
K_month == <<"m","o","n","t","h">>
K_author == <<"a","u","t","h","o","r">>
K_title == <<"t","i","t","l","e">>
K_journal == <<"j","o","u","r","n","a","l">>
K_booktitle == <<"b","o","o","k","t","i","t","l","e">>
K_doi == <<"d","o","i">>
K_url == <<"u","r","l">>
K_ee == <<"e","e">>

\* int(digits)
RECURSIVE ToInt(_)
ToInt(ds) ==
  IF ds = <<>> THEN 0
  ELSE 10 * ToInt(SubSeq(ds, 1, Len(ds) - 1)) + DigitVal[ds[Len(ds)]]

\* str(n), n >= 0
RECURSIVE IntToStr(_)
IntToStr(n) ==
  IF n < 10 THEN <<Digits[n + 1]>>
  ELSE IntToStr(n \div 10) \o <<Digits[(n % 10) + 1]>>

\* first position where n digits in a row start (0 when there is none)
FindDigits(s, n) ==
  LET P(i) == \A k \in 0..(n - 1) : IsDigit(s[i + k])
  IN FirstPos({pos \in 1..(Len(s) - n + 1) : P(pos)})

\* first position >= p where sub starts (0 when there is none)
FindSub(s, sub, p) ==
  LET P(i) == SubSeq(s, i, i + Len(sub) - 1) = sub
  IN FirstPos({pos \in p..(Len(s) - Len(sub) + 1) : P(pos)})

RECURSIVE SplitOn(_, _, _)
\* s[p:].split(sep)
SplitOn(s, sep, p) ==
  LET a == FindSub(s, sep, p)
  IN IF a = 0 THEN <<SubSeq(s, p, Len(s))>>
     ELSE <<SubSeq(s, p, a - 1)>> \o SplitOn(s, sep, a + Len(sep))

(***************************************************************************)
(* _get_year, _get_month                                                   *)
(***************************************************************************)
\* Python's None, as a year
None == -1

_get_year(entry) ==
  LET y == Strip(Get(entry.fields, K_year))
      p == FindDigits(y, 4)
  IN IF p = 0 THEN None ELSE ToInt(SubSeq(y, p, p + 3))

month_map ==
  <<"j","a","n">> :> 1 @@ <<"j","a","n","u","a","r","y">> :> 1 @@
  <<"f","e","b">> :> 2 @@ <<"f","e","b","r","u","a","r","y">> :> 2 @@
  <<"m","a","r">> :> 3 @@ <<"m","a","r","c","h">> :> 3 @@
  <<"a","p","r">> :> 4 @@ <<"a","p","r","i","l">> :> 4 @@
  <<"m","a","y">> :> 5 @@
  <<"j","u","n">> :> 6 @@ <<"j","u","n","e">> :> 6 @@
  <<"j","u","l">> :> 7 @@ <<"j","u","l","y">> :> 7 @@
  <<"a","u","g">> :> 8 @@ <<"a","u","g","u","s","t">> :> 8 @@
  <<"s","e","p">> :> 9 @@ <<"s","e","p","t">> :> 9 @@
  <<"s","e","p","t","e","m","b","e","r">> :> 9 @@
  <<"o","c","t">> :> 10 @@ <<"o","c","t","o","b","e","r">> :> 10 @@
  <<"n","o","v">> :> 11 @@ <<"n","o","v","e","m","b","e","r">> :> 11 @@
  <<"d","e","c">> :> 12 @@ <<"d","e","c","e","m","b","e","r">> :> 12

\* 1 <= val <= 12
MonthInRangeBelow12(val) == 1 <= val /\ val < 12

MonthInRange(val) == 1 <= val /\ val <= 12

\* m_num = re.search(r"\d{1,2}", m); int(m_num.group(0)): the leftmost digit and
\* the digit right after it, if there is one; -1 when m holds no digit
MonthNumber(m) ==
  LET p == FindDigits(m, 1)
  IN IF p = 0 THEN -1
     ELSE IF p < Len(m) /\ IsDigit(m[p + 1]) THEN ToInt(SubSeq(m, p, p + 1))
     ELSE ToInt(<<m[p]>>)

_get_month(entry) ==
  LET m == Lower(Strip(Get(entry.fields, K_month)))
      val == MonthNumber(m)
  IN IF m = <<>> THEN 0
     ELSE IF val # -1 /\ MonthInRange(val) THEN val
     ELSE IF m \in DOMAIN month_map THEN month_map[m] ELSE 0

(***************************************************************************)
(* _authors, _title, _venue, _extra_links, format_item                     *)
(***************************************************************************)
NotBlank(p) == Strip(p) # <<>>

_authors(entry) ==
  LET a == Strip(Get(entry.fields, K_author))
      parts == SelectSeq(SplitOn(a, <<" ","a","n","d"," ">>, 1), NotBlank)
  IN IF a = <<>> THEN <<>>
     ELSE Join([i \in DOMAIN parts |-> Strip(parts[i])], <<",", " ">>)

\* re.sub(r"\.\s*$", "", t)
_title(entry) ==
  LET t == Strip(Get(entry.fields, K_title))
      P(i) == t[i] = "." /\ \A k \in (i + 1)..Len(t) : IsSpace(t[k])
      a == FirstPos({pos \in 1..Len(t) : P(pos)})
  IN IF a = 0 THEN t ELSE SubSeq(t, 1, a - 1)

_venue(entry) ==
  LET j == Strip(Get(entry.fields, K_journal))
      b == Strip(Get(entry.fields, K_booktitle))
  IN IF j # <<>> THEN j ELSE b

\* a sequence of <<name, href>>
_extra_links(entry) ==
  LET doi == Strip(Get(entry.fields, K_doi))
      url == Strip(Get(entry.fields, K_url))
      ee == Strip(Get(entry.fields, K_ee))
  IN (IF doi # <<>>
      THEN << <<(<<"D","O","I">>),
                <<"h","t","t","p","s",":","/","/","d","o","i",".","o","r","g","/">> \o doi>> >>
      ELSE <<>>)
     \o (IF url # <<>> THEN << <<(<<"L","i","n","k">>), url>> >>
         ELSE IF ee # <<>> THEN << <<(<<"L","i","n","k">>), ee>> >>
         ELSE <<>>)

\* the pieces list of format_item
Pieces(entry) ==
  LET a == _authors(entry)
      t == _title(entry)
      v == _venue(entry)
      y == Strip(Get(entry.fields, K_year))
  IN (IF a # <<>> THEN <<a>> ELSE <<>>)
     \o (IF t # <<>> THEN <<(<<LDQ>> \o t \o <<RDQ>>)>> ELSE <<>>)
     \o (IF v # <<>> THEN <<(<<"*">> \o v \o <<"*">>)>> ELSE <<>>)
     \o (IF y # <<>> THEN <<y>> ELSE <<>>)

\* one trailing period less
RStripOnePeriod(s) ==
  IF s # <<>> /\ s[Len(s)] = "." THEN SubSeq(s, 1, Len(s) - 1) ELSE s

\* .rstrip(".")
RStripPeriods(s) == RStripChar(s, ".")

\* s = ". ".join(pieces).strip().rstrip(".")
ItemText(entry) == RStripPeriods(Strip(Join(Pieces(entry), <<".", " ">>)))

\* f"[{name}]({href})"
LinkText(link) == <<"[">> \o link[1] \o <<"]", "(">> \o link[2] \o <<")">>

format_item(entry) ==
  LET s == ItemText(entry)
      links == _extra_links(entry)
      link_str == Join([i \in DOMAIN links |-> LinkText(links[i])], <<",", " ">>)
  IN <<"-", " ">> \o (IF links # <<>> THEN s \o <<".", " ">> \o link_str ELSE s)

(***************************************************************************)
(* Sorting: list.sort(key=..., reverse=...) is stable in both directions   *)
(***************************************************************************)
\* a < b for two str, by code point
StrLess(a, b) ==
  \E p \in 1..(Len(a) + 1) :
    /\ p <= Len(b)
    /\ \A k \in 1..(p - 1) : a[k] = b[k]
    /\ p = Len(a) + 1 \/ Ord[a[p]] < Ord[b[p]]

\* seq sorted by its keys, before[i][j] telling whether the key of seq[i] is to come
\* before the key of seq[j] ("less than" ascending, "greater than" with
\* reverse=True); elements with equal keys keep their order (the sort is stable,
\* with reverse=True too)
SortedBy(seq, before) ==
  LET ahead == [i \in DOMAIN seq |->
                 Cardinality({j \in DOMAIN seq :
                                \/ before[j][i]
                                \/ ~before[i][j] /\ j < i})]
  IN [r \in DOMAIN seq |-> seq[CHOOSE i \in DOMAIN seq : ahead[i] = r - 1]]

\* _get_year(entry) or 0
YearOrZero(entry) == IF _get_year(entry) = None THEN 0 ELSE _get_year(entry)

\* the key with an unknown month put ahead of every known month
TimeKeyUnknownFirst(entry) ==
  <<YearOrZero(entry), IF _get_month(entry) = 0 THEN 13 ELSE _get_month(entry),
    Lower(_venue(entry)), Lower(_title(entry))>>

_time_sort_key_desc(entry) ==
  <<YearOrZero(entry), _get_month(entry), Lower(_venue(entry)), Lower(_title(entry))>>

\* k1 < k2 for two keys of _time_sort_key_desc (Python's tuple comparison)
TimeKeyLess(k1, k2) ==
  \/ k1[1] < k2[1]
  \/ /\ k1[1] = k2[1]
     /\ \/ k1[2] < k2[2]
        \/ /\ k1[2] = k2[2]
           /\ \/ StrLess(k1[3], k2[3])
              \/ k1[3] = k2[3] /\ StrLess(k1[4], k2[4])

TimeKeyGreater(k1, k2) == TimeKeyLess(k2, k1)

TimeKeys(bucket) == [i \in DOMAIN bucket |-> _time_sort_key_desc(bucket[i])]

\* bucket.sort(key=_time_sort_key_desc), without reverse=True
SortByTimeAsc(bucket) ==
  LET keys == TimeKeys(bucket)
  IN SortedBy(bucket, [i \in DOMAIN keys |-> [j \in DOMAIN keys |->
                         TimeKeyLess(keys[i], keys[j])]])

\* bucket.sort(key=_time_sort_key_desc, reverse=True)
SortByTime(bucket) ==
  LET keys == TimeKeys(bucket)
  IN SortedBy(bucket, [i \in DOMAIN keys |-> [j \in DOMAIN keys |->
                         TimeKeyGreater(keys[i], keys[j])]])

\* key of the no-year sort: (_title(x).lower(), x.key.lower())
NoYearKey(x) == <<Lower(_title(x)), Lower(x.key)>>

NoYearKeyLess(k1, k2) ==
  \/ StrLess(k1[1], k2[1])
  \/ k1[1] = k2[1] /\ StrLess(k1[2], k2[2])

\* no_year.sort(key=lambda x: (_title(x).lower(), x.key.lower()))
SortNoYear(bucket) ==
  LET keys == [i \in DOMAIN bucket |-> NoYearKey(bucket[i])]
  IN SortedBy(bucket, [i \in DOMAIN keys |-> [j \in DOMAIN keys |->
                         NoYearKeyLess(keys[i], keys[j])]])

RECURSIVE SortedDesc(_)
\* sorted(S, reverse=True) of a set of integers
SortedDesc(S) ==
  IF S = {} THEN <<>> ELSE <<Max(S)>> \o SortedDesc(S \ {Max(S)})

(***************************************************************************)
(* main: the merged collection, the buckets, the lines                     *)
(***************************************************************************)
\* all_entries[e.key] = e, keeping the first record's place (a dict keeps the place
\* of a key that is assigned again); all_entries is the sequence of the values
MergeKeepFirst(all, e) ==
  IF \E i \in DOMAIN all : all[i].key = e.key THEN all ELSE Append(all, e)

Merge(all, e) ==
  IF \E i \in DOMAIN all : all[i].key = e.key
  THEN [i \in DOMAIN all |-> IF all[i].key = e.key THEN e ELSE all[i]]
  ELSE Append(all, e)

RECURSIVE MergeAll(_, _)
\* for e in parse_bib_file(bf): all_entries[e.key] = e
MergeAll(all, parsed) ==
  IF parsed = <<>> THEN all
  ELSE MergeAll(Merge(all, Head(parsed)), Tail(parsed))

\* y < 2020
IsBefore2020Incl(y) == y <= 2020

IsBefore2020(y) == y < 2020

NoBuckets == [grouped |-> <<>>, before_2020 |-> <<>>, no_year |-> <<>>]

\* the body of the grouping loop for one record
GroupOne(b, e) ==
  LET y == _get_year(e)
  IN IF y = None THEN [b EXCEPT !.no_year = Append(@, e)]
     ELSE IF IsBefore2020(y) THEN [b EXCEPT !.before_2020 = Append(@, e)]
     ELSE [b EXCEPT !.grouped =
             Put(@, y, IF y \in DOMAIN @ THEN Append(@[y], e) ELSE <<e>>)]

RECURSIVE GroupAll(_, _)
\* for e in all_entries.values(): ...
GroupAll(b, entries) ==
  IF entries = <<>> THEN b
  ELSE GroupAll(GroupOne(b, Head(entries)), Tail(entries))

FormatAll(bucket) == [i \in DOMAIN bucket |-> format_item(bucket[i])]

\* one block without its closing blank line
BlockNoBlank(heading, bucket) == <<heading>> \o FormatAll(bucket)

\* heading, one bullet per record, one blank line
Block(heading, bucket) == <<heading>> \o FormatAll(bucket) \o << <<>> >>

RECURSIVE YearBlocks(_, _)
\* for y in years: lines.append(f"### {y}") ...
YearBlocks(ys, g) ==
  IF ys = <<>> THEN <<>>
  ELSE Block(<<"#", "#", "#", " ">> \o IntToStr(Head(ys)), g[Head(ys)])
       \o YearBlocks(Tail(ys), g)

HeadingBefore == <<"#","#","#"," ","B","e","f","o","r","e"," ","2","0","2","0">>
HeadingOthers ==
  <<"#","#","#"," ","O","t","h","e","r","s"," ","(","n","o"," ","y","e","a","r",")">>

\* the lines list of main
Lines(ys, g, before, others) ==
  YearBlocks(ys, g)
  \o (IF before # <<>> THEN Block(HeadingBefore, before) ELSE <<>>)
  \o (IF others # <<>> THEN Block(HeadingOthers, others) ELSE <<>>)

\* "\n".join(lines).strip() + "\n"
OutText(ls) == Strip(Join(ls, <<"\n">>)) \o <<"\n">>

(***************************************************************************)
(* The source files main is run on                                         *)
(***************************************************************************)
\* @article{a1, title={A Study.}, author={X Y}, journal={J}, year={2021}}
D1 ==
  <<"@", "a", "r", "t", "i", "c", "l", "e", "{", "a", "1", ",", " ", "t", "i", "t",
    "l", "e", "=", "{", "A", " ", "S", "t", "u", "d", "y", ".", "}", ",", " ", "a",
    "u", "t", "h", "o", "r", "=", "{", "X", " ", "Y", "}", ",", " ", "j", "o", "u",
    "r", "n", "a", "l", "=", "{", "J", "}", ",", " ", "y", "e", "a", "r", "=", "{",
    "2", "0", "2", "1", "}", "}">>

\* @article{b2, title={B Work}, journal={J}, year={2021}, month={Jan},}
D2 ==
  <<"@", "a", "r", "t", "i", "c", "l", "e", "{", "b", "2", ",", " ", "t", "i", "t",
    "l", "e", "=", "{", "B", " ", "W", "o", "r", "k", "}", ",", " ", "j", "o", "u",
    "r", "n", "a", "l", "=", "{", "J", "}", ",", " ", "y", "e", "a", "r", "=", "{",
    "2", "0", "2", "1", "}", ",", " ", "m", "o", "n", "t", "h", "=", "{", "J", "a",
    "n", "}", ",", "}">>

\* @inproceedings{c3, title={C {Deep} Idea}, booktitle={K \& L}, year=2021, month=1\n}
D3 ==
  <<"@", "i", "n", "p", "r", "o", "c", "e", "e", "d", "i", "n", "g", "s", "{", "c",
    "3", ",", " ", "t", "i", "t", "l", "e", "=", "{", "C", " ", "{", "D", "e", "e",
    "p", "}", " ", "I", "d", "e", "a", "}", ",", " ", "b", "o", "o", "k", "t", "i",
    "t", "l", "e", "=", "{", "K", " ", "\\", "&", " ", "L", "}", ",", " ", "y", "e",
    "a", "r", "=", "2", "0", "2", "1", ",", " ", "m", "o", "n", "t", "h", "=", "1",
    "\n", "}">>

\* @article{a1, title={Zed}, year={2019}, doi={10.1/x}, }
D4 ==
  <<"@", "a", "r", "t", "i", "c", "l", "e", "{", "a", "1", ",", " ", "t", "i", "t",
    "l", "e", "=", "{", "Z", "e", "d", "}", ",", " ", "y", "e", "a", "r", "=", "{",
    "2", "0", "1", "9", "}", ",", " ", "d", "o", "i", "=", "{", "1", "0", ".", "1",
    "/", "x", "}", ",", " ", "}">>

\* @misc{d4, title="No Year", url={u},}
D5 ==
  <<"@", "m", "i", "s", "c", "{", "d", "4", ",", " ", "t", "i", "t", "l", "e", "=",
    "\"", "N", "o", " ", "Y", "e", "a", "r", "\"", ",", " ", "u", "r", "l", "=", "{",
    "u", "}", ",", "}">>

\* @article{e5, title={Early}, journal={A}, year={2018}, month={may},}
D6 ==
  <<"@", "a", "r", "t", "i", "c", "l", "e", "{", "e", "5", ",", " ", "t", "i", "t",
    "l", "e", "=", "{", "E", "a", "r", "l", "y", "}", ",", " ", "j", "o", "u", "r",
    "n", "a", "l", "=", "{", "A", "}", ",", " ", "y", "e", "a", "r", "=", "{", "2",
    "0", "1", "8", "}", ",", " ", "m", "o", "n", "t", "h", "=", "{", "m", "a", "y",
    "}", ",", "}">>

\* @article{b2, title={Old}, journal={J}, year={2020}, month={12},}
M1 ==
  <<"@", "a", "r", "t", "i", "c", "l", "e", "{", "b", "2", ",", " ", "t", "i", "t",
    "l", "e", "=", "{", "O", "l", "d", "}", ",", " ", "j", "o", "u", "r", "n", "a",
    "l", "=", "{", "J", "}", ",", " ", "y", "e", "a", "r", "=", "{", "2", "0", "2",
    "0", "}", ",", " ", "m", "o", "n", "t", "h", "=", "{", "1", "2", "}", ",", "}">>

\* @misc{f6, title={Another}, year={n.d.},}
M2 ==
  <<"@", "m", "i", "s", "c", "{", "f", "6", ",", " ", "t", "i", "t", "l", "e", "=",
    "{", "A", "n", "o", "t", "h", "e", "r", "}", ",", " ", "y", "e", "a", "r", "=",
    "{", "n", ".", "d", ".", "}", ",", "}">>

\* @article{g7, title={A Work}, journal={J}, year={2021}, month={1},}
M3 ==
  <<"@", "a", "r", "t", "i", "c", "l", "e", "{", "g", "7", ",", " ", "t", "i", "t",
    "l", "e", "=", "{", "A", " ", "W", "o", "r", "k", "}", ",", " ", "j", "o", "u",
    "r", "n", "a", "l", "=", "{", "J", "}", ",", " ", "y", "e", "a", "r", "=", "{",
    "2", "0", "2", "1", "}", ",", " ", "m", "o", "n", "t", "h", "=", "{", "1", "}",
    ",", "}">>

\* every sequence over S of length at most n
SeqsUpTo(S, n) == UNION {[1..k -> S] : k \in 0..n}

\* entries of dblp.bib / manual.bib in one run, at most
MaxDblp == 2
MaxManual == 1

DblpPool == {D1, D2, D3, D4, D5, D6}
ManualPool == {M1, M2, M3}

Missing == [exists |-> FALSE, text |-> <<>>]
\* a file holding the given entries, one after the other, a newline between
FileOf(entries) == [exists |-> TRUE, text |-> Join(entries, <<"\n">>)]

VARIABLES
  pc,            \* where main is, or "call" / "return" around one function call
  files,         \* BIB_FILES: for each, whether it exists and its text
  bf,            \* the index of the file the first loop is at
  all_entries,   \* the values of the dict all_entries, in the dict's order
  grouped, before_2020, no_year, years,
  lines,
  out,           \* the text of OUT_MD, <<>> while it is not written
  arg, ret       \* the argument and the return value of a function called alone

mainVars == <<files, bf, all_entries, grouped, before_2020, no_year, years, lines, out>>
vars == <<pc, mainVars, arg, ret>>

\* main before its first statement, on the files fs
Start(fs) ==
  /\ files = fs
  /\ bf = 1
  /\ all_entries = <<>>
  /\ grouped = <<>>
  /\ before_2020 = <<>>
  /\ no_year = <<>>
  /\ years = <<>>
  /\ lines = <<>>
  /\ out = <<>>

Init ==
  \E d \in {FileOf(es) : es \in SeqsUpTo(DblpPool, MaxDblp)},
     m \in {Missing} \cup {FileOf(es) : es \in SeqsUpTo(ManualPool, MaxManual)} :
    /\ Start(<<d, m>>)
    /\ pc = "read"
    /\ arg = <<>>
    /\ ret = <<>>

\* one turn of "for bf in BIB_FILES", its inner loop included
ReadBibFile ==
  /\ pc = "read"
  /\ all_entries' = MergeAll(all_entries, parse_bib_file(files[bf]))
  /\ bf' = bf + 1
  /\ pc' = IF bf = Len(files) THEN "group" ELSE "read"
  /\ UNCHANGED <<files, grouped, before_2020, no_year, years, lines, out, arg, ret>>

\* source lines 229-242
Group ==
  /\ pc = "group"
  /\ LET b == GroupAll(NoBuckets, all_entries)
     IN /\ grouped' = b.grouped
        /\ before_2020' = b.before_2020
        /\ no_year' = b.no_year
  /\ pc' = "sort"
  /\ UNCHANGED <<files, bf, all_entries, years, lines, out, arg, ret>>

\* source lines 244-257
SortBuckets ==
  /\ pc = "sort"
  /\ years' = SortedDesc(DOMAIN grouped)
  /\ grouped' = [y \in DOMAIN grouped |-> SortByTime(grouped[y])]
  /\ before_2020' = SortByTime(before_2020)
  /\ no_year' = SortNoYear(no_year)
  /\ pc' = "render"
  /\ UNCHANGED <<files, bf, all_entries, lines, out, arg, ret>>

\* source lines 259-281
Render ==
  /\ pc = "render"
  /\ lines' = Lines(years, grouped, before_2020, no_year)
  /\ pc' = "write"
  /\ UNCHANGED <<files, bf, all_entries, grouped, before_2020, no_year, years, out, arg, ret>>

\* source line 283
Write ==
  /\ pc = "write"
  /\ out' = OutText(lines)
  /\ pc' = "done"
  /\ UNCHANGED <<files, bf, all_entries, grouped, before_2020, no_year, years, lines, arg, ret>>

Next == ReadBibFile \/ Group \/ SortBuckets \/ Render \/ Write

Spec == Init /\ [][Next]_vars

(***************************************************************************)
(* Claims about main, checked under Spec                                   *)
(***************************************************************************)
AfterGroup == pc \in {"sort", "render", "write", "done"}
AfterSort == pc \in {"render", "write", "done"}
AfterRender == pc \in {"write", "done"}

\* the records main has parsed so far, in the order it met them
ParsedSoFar ==
  IF bf = 1 THEN <<>>
  ELSE IF bf = 2 THEN parse_bib_file(files[1])
  ELSE parse_bib_file(files[1]) \o parse_bib_file(files[2])

\* the buckets whose order is by time: every year bucket and "Before 2020"
TimeBuckets == {grouped[y] : y \in DOMAIN grouped} \cup {before_2020}

Count(seq, e) == Cardinality({i \in DOMAIN seq : seq[i] = e})

\* how many places of the year buckets hold e
CountGrouped(e) ==
  Cardinality({p \in UNION {{y} \X DOMAIN grouped[y] : y \in DOMAIN grouped} :
                 grouped[p[1]][p[2]] = e})

RECURSIVE TotalLen(_, _)
TotalLen(g, ys) ==
  IF ys = {} THEN 0
  ELSE LET y == CHOOSE y \in ys : TRUE IN Len(g[y]) + TotalLen(g, ys \ {y})

\* the document "### 2021" / "- X Y. <ldquo>A Study<rdquo>. *J*. 2021"
C1_Expected ==
  <<"#", "#", "#", " ", "2", "0", "2", "1", "\n", "-", " ", "X", " ", "Y", ".", " ",
    LDQ, "A", " ", "S", "t", "u", "d", "y", RDQ, ".", " ", "*", "J", "*", ".", " ",
    "2", "0", "2", "1", "\n">>

\* C1: with the one entry D1 as the only input text (manual.bib missing or empty),
\* the written document is the heading "### 2021" and the bullet
\* - X Y. <ldquo>A Study<rdquo>. *J*. 2021
C1_EndToEnd ==
  (/\ pc = "done"
   /\ files[1] = FileOf(<<D1>>)
   /\ files[2] \in {Missing, FileOf(<<>>)})
  => out = C1_Expected

\* C2: while main merges and when it has merged every source, the merged
\* collection holds, for every key parsed so far, exactly one record, equal in
\* entry_type and in its whole field mapping to the last record parsed with that
\* key, and holds no other key.  (No later step of main assigns all_entries.)
C2_OverrideLaw ==
  pc \in {"read", "group"} =>
    LET P == ParsedSoFar
        Keys == {P[i].key : i \in DOMAIN P}
    IN /\ {all_entries[i].key : i \in DOMAIN all_entries} = Keys
       /\ \A K \in Keys :
            LET HasKey(i) == P[i].key = K
                last == P[LastPos({pos \in 1..Len(P) : HasKey(pos)})]
            IN /\ Cardinality({i \in DOMAIN all_entries : all_entries[i].key = K}) = 1
               /\ \A i \in DOMAIN all_entries :
                    all_entries[i].key = K =>
                      /\ all_entries[i].entry_type = last.entry_type
                      /\ all_entries[i].fields = last.fields

\* a key was parsed twice, and the earlier record had a field the last one lacks
C2_Witness ==
  /\ pc = "group"
  /\ LET P == ParsedSoFar
     IN \E i, j \in DOMAIN P :
          /\ i < j
          /\ P[i].key = P[j].key
          /\ ~(DOMAIN P[i].fields \subseteq DOMAIN P[j].fields)
          /\ \E k \in DOMAIN all_entries : all_entries[k] = P[j]

\* the year field is absent or holds no run of four digits
NoFourDigits(e) ==
  \/ K_year \notin DOMAIN e.fields
  \/ LET v == e.fields[K_year]
     IN ~\E i \in 1..(Len(v) - 3) : \A k \in 0..3 : IsDigit(v[i + k])

\* C3: once grouped, every record of the merged collection is in exactly one
\* place of the buckets: in year bucket Y when its year Y >= 2020, in "Before 2020"
\* when its year is < 2020, in "Others (no year)" exactly when the year field is
\* absent or holds no four digits in a row; the buckets hold nothing else.
C3_YearBucketing ==
  AfterGroup =>
    /\ \A k \in DOMAIN all_entries :
         LET e == all_entries[k]
             y == _get_year(e)
         IN /\ Count(before_2020, e) + Count(no_year, e) + CountGrouped(e) = 1
            /\ NoFourDigits(e) <=> Count(no_year, e) = 1
            /\ (y # None /\ y < 2020) => Count(before_2020, e) = 1
            /\ y >= 2020 => y \in DOMAIN grouped /\ Count(grouped[y], e) = 1
    /\ Len(before_2020) + Len(no_year) + TotalLen(grouped, DOMAIN grouped)
         = Len(all_entries)
    /\ \A y \in DOMAIN grouped : y >= 2020 /\ grouped[y] # <<>>

\* a run with year = {2019} in "Before 2020", year = {2020} in bucket 2020 and a
\* record without a year in "Others (no year)"
C3_Witness ==
  /\ pc = "done"
  /\ \E i \in DOMAIN before_2020 :
       Get(before_2020[i].fields, K_year) = <<"2", "0", "1", "9">>
  /\ 2020 \in DOMAIN grouped
  /\ \E i \in DOMAIN grouped[2020] :
       Get(grouped[2020][i].fields, K_year) = <<"2", "0", "2", "0">>
  /\ no_year # <<>>

IsHeading(l) == Len(l) >= 4 /\ SubSeq(l, 1, 4) = <<"#", "#", "#", " ">>
IsBullet(l) == Len(l) >= 1 /\ l[1] = "-"
YearHeading(y) == <<"#", "#", "#", " ">> \o IntToStr(y)

\* the headings of the lines, in order
Headings == SelectSeq(lines, IsHeading)

\* the number of bullets that follow the heading at place h, up to the next line
\* that is no bullet
BulletsAfter(h) ==
  LET NotBullet(i) == ~IsBullet(lines[i])
      stop == FirstPos({pos \in (h + 1)..Len(lines) : NotBullet(pos)})
  IN (IF stop = 0 THEN Len(lines) + 1 ELSE stop) - h - 1

\* the bucket a heading stands for (<<>> when it stands for none)
BucketOf(heading) ==
  IF heading = HeadingBefore THEN before_2020
  ELSE IF heading = HeadingOthers THEN no_year
  ELSE IF \E y \in DOMAIN grouped : heading = YearHeading(y)
       THEN grouped[CHOOSE y \in DOMAIN grouped : heading = YearHeading(y)]
       ELSE <<>>

\* the headings the buckets call for, in the order of the document
ExpectedHeadings ==
  [i \in 1..Cardinality(DOMAIN grouped) |->
     YearHeading(CHOOSE y \in DOMAIN grouped :
                   Cardinality({z \in DOMAIN grouped : z > y}) = i - 1)]
  \o (IF before_2020 # <<>> THEN <<HeadingBefore>> ELSE <<>>)
  \o (IF no_year # <<>> THEN <<HeadingOthers>> ELSE <<>>)

\* C5: the lines are blocks only, one per non-empty bucket: a heading, one bullet
\* per record of the bucket, one blank line; the year headings come first, strictly
\* descending, then "### Before 2020", then "### Others (no year)", none twice; the
\* written text is the lines joined, cut after the last character that is no
\* whitespace, plus one newline (a lone newline when there is no record).
C5_OutputStructure ==
  /\ AfterRender =>
       /\ \A i \in DOMAIN lines :
            /\ IsHeading(lines[i]) \/ IsBullet(lines[i]) \/ lines[i] = <<>>
            /\ IsHeading(lines[i]) =>
                 /\ i = 1 \/ lines[i - 1] = <<>>
                 /\ BulletsAfter(i) = Len(BucketOf(lines[i]))
                 /\ BulletsAfter(i) >= 1
                 /\ i + BulletsAfter(i) + 1 <= Len(lines)
                 /\ lines[i + BulletsAfter(i) + 1] = <<>>
            /\ IsBullet(lines[i]) => i > 1 /\ lines[i - 1] # <<>>
            /\ lines[i] = <<>> => i > 1 /\ IsBullet(lines[i - 1])
       /\ Headings = ExpectedHeadings
       /\ \A i, j \in DOMAIN Headings : i # j => Headings[i] # Headings[j]
       /\ lines = <<>> <=> all_entries = <<>>
  /\ pc = "done" =>
       LET joined == Join(lines, <<"\n">>)
           n == Len(out) - 1
       IN /\ Len(out) >= 1
          /\ out[Len(out)] = "\n"
          /\ n >= 1 => ~IsSpace(out[n])
          /\ n <= Len(joined)
          /\ SubSeq(out, 1, n) = SubSeq(joined, 1, n)
          /\ \A k \in (n + 1)..Len(joined) : IsSpace(joined[k])
          /\ all_entries = <<>> => out = <<"\n">>

\* a written document of two year blocks and a "Before 2020" block
C5_Witness ==
  /\ pc = "done"
  /\ Len(Headings) >= 3
  /\ Cardinality(DOMAIN grouped) >= 2
  /\ before_2020 # <<>>

\* C10 as stated: in a bucket, among records of the same year, a record whose
\* month is unknown (0) comes before every record whose month is known.
C10_UnknownMonthFirst ==
  AfterSort =>
    \A b \in TimeBuckets : \A i, j \in DOMAIN b :
      (/\ YearOrZero(b[i]) = YearOrZero(b[j])
       /\ _get_month(b[i]) = 0
       /\ _get_month(b[j]) \in 1..12)
      => i < j

\* C10 amended: in a bucket, among records of the same year, a record whose month
\* is unknown (0) comes after every record whose month is known.
C10_UnknownMonthLast ==
  AfterSort =>
    \A b \in TimeBuckets : \A i, j \in DOMAIN b :
      (/\ YearOrZero(b[i]) = YearOrZero(b[j])
       /\ _get_month(b[i]) = 0
       /\ _get_month(b[j]) \in 1..12)
      => j < i

\* a bucket holds a record of unknown month and one of known month, same year,
\* which the merged collection held with the unknown month first
C10_Witness ==
  /\ pc = "done"
  /\ \E b \in TimeBuckets : \E i, j \in DOMAIN b :
       /\ YearOrZero(b[i]) = YearOrZero(b[j])
       /\ _get_month(b[i]) = 0
       /\ _get_month(b[j]) \in 1..12
       /\ \E k, l \in DOMAIN all_entries :
            k < l /\ all_entries[k] = b[i] /\ all_entries[l] = b[j]

(***************************************************************************)
(* One function called alone: the argument is drawn in the initial state   *)
(* and the call is one step.  main is not running.                         *)
(***************************************************************************)
Idle == Start(<<Missing, Missing>>)

Call(result) ==
  /\ pc = "call"
  /\ ret' = result
  /\ pc' = "return"
  /\ UNCHANGED <<mainVars, arg>>

(***************************************************************************)
(* _split_entries on every text over SplitChars of length <= MaxTextLen    *)
(***************************************************************************)
MaxTextLen == 5
SplitChars == {"@", "{", "}", "a"}

InitSplit ==
  /\ Idle
  /\ pc = "call"
  /\ arg \in SeqsUpTo(SplitChars, MaxTextLen)
  /\ ret = <<>>

CallSplit == Call(_split_entries(arg))

SpecSplit == InitSplit /\ [][CallSplit]_vars

\* the number of "{" less the number of "}" in text[lb..p]
BraceDepth(text, lb, p) ==
  Cardinality({i \in lb..p : text[i] = "{"}) - Cardinality({i \in lb..p : text[i] = "}"})

\* the chunk that starts at the "@" at position a ends at position j: j holds the
\* "}" at which the depth, counted from the first "{" after a, first returns to 0
ClosesAt(text, a, j) ==
  \E lb \in (a + 1)..Len(text) :
    /\ text[lb] = "{"
    /\ \A k \in a..(lb - 1) : text[k] # "{"
    /\ lb < j /\ j <= Len(text)
    /\ text[j] = "}"
    /\ BraceDepth(text, lb, j) = 0
    /\ \A q \in lb..(j - 1) : BraceDepth(text, lb, q) > 0

MaxFields == 2

K_note == <<"n", "o", "t", "e">>
ParseNames == {K_title, K_year, K_note}

ParseValues ==
  { <<"2", "0", "2", "1">>,
    <<"A", " ", "{", "B", "}", " ", "C">>,
    <<"{", "A", "}">>,
    <<"a", " ", " ", "b">>,
    <<"K", " ", "\\", "&", " ", "L">>,
    <<>> }

Terminators == { <<"}">>, <<",", "}">>, <<" ", "}">>, <<"\n", "}">> }

\* name={V}
FieldText(name, V) == name \o <<"=", "{">> \o V \o <<"}">>

FieldLists ==
  {fl \in SeqsUpTo(ParseNames \X ParseValues, MaxFields) :
     \A i, j \in DOMAIN fl : i # j => fl[i][1] # fl[j][1]}

EntryText(fl, term) ==
  <<"@", "m", "i", "s", "c", "{", "k", "1", ",">>
  \o Join([i \in DOMAIN fl |-> FieldText(fl[i][1], fl[i][2])], <<",", " ">>)
  \o term

InitParse ==
  /\ Idle
  /\ pc = "call"
  /\ \E fl \in FieldLists, term \in Terminators : arg = EntryText(fl, term)
  /\ ret = <<>>

CallParse == Call(parse_bib_file([exists |-> TRUE, text |-> arg]))

SpecParse == InitParse /\ [][CallParse]_vars

\* the entry text holds the field name={V}
Written(text, name, V) == FindSub(text, FieldText(name, V), 1) # 0

\* the braces of v pair up
Balanced(v) ==
  /\ BraceDepth(v, 1, Len(v)) = 0
  /\ \A q \in DOMAIN v : BraceDepth(v, 1, q) >= 0

\* C6: every field written name={V} is stored as V without the outer brace pair,
\* the inner groups kept, whitespace runs collapsed to one space and "\&" replaced
\* by "&", wherever the field stands in the body; no stored value keeps an
\* unmatched brace.
C6_FieldValues ==
  pc = "return" =>
    /\ Len(ret) = 1
    /\ \A name \in ParseNames, V \in ParseValues :
         Written(arg, name, V) =>
           /\ name \in DOMAIN ret[1].fields
           /\ ret[1].fields[name] = Strip(CollapseSpace(ReplaceAmp(V)))
    /\ \A name \in DOMAIN ret[1].fields : Balanced(ret[1].fields[name])

(***************************************************************************)
(* _get_month on a record whose month field is absent or one of MonthTexts *)
(***************************************************************************)
MaxMonthLen == 3
MonthChars == {"0", "1", "2", "5", " ", "x"}

\* the table's names, as written, capitalised and in capitals
UpperChar(c) ==
  IF \E i \in DOMAIN LowerCase : LowerCase[i] = c
  THEN UpperCase[CHOOSE i \in DOMAIN LowerCase : LowerCase[i] = c]
  ELSE c

MonthNames ==
  UNION {{n, [i \in DOMAIN n |-> IF i = 1 THEN UpperChar(n[i]) ELSE n[i]],
          [i \in DOMAIN n |-> UpperChar(n[i])]} : n \in DOMAIN month_map}

\* a stored field value has no outer whitespace and no run of two blanks
MonthTexts ==
  {v \in SeqsUpTo(MonthChars, MaxMonthLen) : _unescape_latex(v) = v}
  \cup MonthNames
  \cup {n \o <<".">> : n \in MonthNames}
  \cup {n \o <<" ", "5">> : n \in MonthNames}

EntryWith(fields) == [key |-> <<"k">>, entry_type |-> <<"m", "i", "s", "c">>,
                      fields |-> fields]

InitMonth ==
  /\ Idle
  /\ pc = "call"
  /\ arg \in {EntryWith(EmptyFields)}
              \cup {EntryWith(Put(EmptyFields, K_month, v)) : v \in MonthTexts}
  /\ ret = <<>>

CallGetMonth == Call(_get_month(arg))

SpecMonth == InitMonth /\ [][CallGetMonth]_vars

\* the values in 1..12 of the runs of one or two digits of m; whole: a run has no
\* digit before it and none after it
MonthRuns(m, whole) ==
  {n \in 1..12 :
     \E i \in DOMAIN m, len \in 1..2 :
       /\ i + len - 1 <= Len(m)
       /\ \A k \in i..(i + len - 1) : IsDigit(m[k])
       /\ whole => i = 1 \/ ~IsDigit(m[i - 1])
       /\ whole => i + len - 1 = Len(m) \/ ~IsDigit(m[i + len])
       /\ n = ToInt(SubSeq(m, i, i + len - 1))}

\* the table value of the month field as a whole, 0 when it is no name of the table
TableValue(m) == IF Lower(m) \in DOMAIN month_map THEN month_map[Lower(m)] ELSE 0

\* C7 as stated: the result is in 0..12; when the field holds a run of one or two
\* digits with a value in 1..12, wherever it stands, the result is the value of
\* such a run; otherwise it is the table value of the whole field, or 0.  A run is
\* read either way: as any one or two digits in a row, or as a whole run.
C7_AnyDigitRun ==
  pc = "return" =>
    LET m == Get(arg.fields, K_month)
    IN /\ ret \in 0..12
       /\ \E whole \in BOOLEAN :
            /\ MonthRuns(m, whole) # {} => ret \in MonthRuns(m, whole)
            /\ MonthRuns(m, whole) = {} => ret = TableValue(m)

\* C7 amended: the result is in 0..12; it is the value n of the leftmost digit of
\* the field taken together with the character right after it when that is a digit
\* too, when n is in 1..12; otherwise the table value of the whole field, or 0.
C7_LeftmostDigits ==
  pc = "return" =>
    LET m == Get(arg.fields, K_month)
        Leftmost(p) == IsDigit(m[p]) /\ \A k \in 1..(p - 1) : ~IsDigit(m[k])
        Value(p) == IF p < Len(m) /\ IsDigit(m[p + 1])
                    THEN 10 * DigitVal[m[p]] + DigitVal[m[p + 1]]
                    ELSE DigitVal[m[p]]
        Numeric == \E p \in DOMAIN m : Leftmost(p) /\ Value(p) \in 1..12
    IN /\ ret \in 0..12
       /\ \A p \in DOMAIN m : (Leftmost(p) /\ Value(p) \in 1..12) => ret = Value(p)
       /\ ~Numeric => ret = TableValue(m)
       /\ m = <<"J", "a", "n">> => ret = 1
       /\ m = <<"1">> => ret = 1
       /\ m = <<>> => ret = 0

\* the field holds a run of digits with a value in 1..12 that is not its leftmost
\* digits, and the result is 0
C7_Witness ==
  /\ pc = "return"
  /\ Get(arg.fields, K_month) = <<"0", " ", "5">>
  /\ ret = 0

(***************************************************************************)
(* format_item on a record built from the field values below               *)
(***************************************************************************)
\* trailing periods of a field value, at most
MaxDots == 2

RECURSIVE Dots(_)
Dots(n) == IF n = 0 THEN <<>> ELSE <<".">> \o Dots(n - 1)

Absent == <<"absent">>

FormatValues ==
  [author  |-> {Absent} \cup {<<"X", " ", "Y">> \o Dots(n) : n \in 0..MaxDots},
   title   |-> {Absent, <<"T">>, <<"T", ".">>},
   journal |-> {Absent, <<"J">>},
   year    |-> {Absent} \cup {<<"2", "0", "2", "1">> \o Dots(n) : n \in 0..MaxDots},
   doi     |-> {Absent, <<"1", "0", ".", "1", "/", "x">>},
   url     |-> {Absent, <<"u">>},
   ee      |-> {Absent, <<"e">>}]

FormatKeys ==
  [author |-> K_author, title |-> K_title, journal |-> K_journal, year |-> K_year,
   doi |-> K_doi, url |-> K_url, ee |-> K_ee]

\* the dict of a choice c of one value, or Absent, per field
FieldsOf(c) ==
  LET present == {f \in DOMAIN c : c[f] # Absent}
  IN [k \in {FormatKeys[f] : f \in present} |->
        c[CHOOSE f \in present : FormatKeys[f] = k]]

InitFormat ==
  /\ Idle
  /\ pc = "call"
  /\ \E c \in [author : FormatValues.author, title : FormatValues.title,
               journal : FormatValues.journal, year : FormatValues.year,
               doi : FormatValues.doi, url : FormatValues.url, ee : FormatValues.ee] :
       arg = EntryWith(FieldsOf(c))
  /\ ret = <<>>

CallFormatItem == Call(format_item(arg))

SpecFormat == InitFormat /\ [][CallFormatItem]_vars

\* x, then ". " and rest when both are there
ThenPiece(x, rest) ==
  IF x = <<>> THEN rest ELSE IF rest = <<>> THEN x ELSE x \o <<".", " ">> \o rest

\* the non-empty pieces (authors, quoted title, starred venue, year) joined by ". "
JoinedPieces(e) ==
  LET t == _title(e)
      v == _venue(e)
  IN ThenPiece(_authors(e),
       ThenPiece(IF t = <<>> THEN <<>> ELSE <<LDQ>> \o t \o <<RDQ>>,
         ThenPiece(IF v = <<>> THEN <<>> ELSE <<"*">> \o v \o <<"*">>,
                   Get(e.fields, K_year))))

\* ". " and the [Name](url) items joined by ", ", nothing when there is no link
LinkTail(e) ==
  LET doi == Get(e.fields, K_doi)
      link == IF Get(e.fields, K_url) # <<>> THEN Get(e.fields, K_url)
              ELSE Get(e.fields, K_ee)
      d == IF doi = <<>> THEN <<>>
           ELSE <<"[", "D", "O", "I", "]", "(">>
                \o <<"h","t","t","p","s",":","/","/","d","o","i",".","o","r","g","/">>
                \o doi \o <<")">>
      l == IF link = <<>> THEN <<>>
           ELSE <<"[", "L", "i", "n", "k", "]", "(">> \o link \o <<")">>
      both == IF d # <<>> /\ l # <<>> THEN d \o <<",", " ">> \o l ELSE d \o l
  IN IF both = <<>> THEN <<>> ELSE <<".", " ">> \o both

\* the text of the bullet between "- " and the links
ItemBody(e) ==
  SubSeq(ret, 3, Len(ret) - Len(LinkTail(e)))

\* C8 as stated: the bullet is "- ", the joined pieces less exactly one trailing
\* period when they end in one, then the links.
C8_OnePeriodRemoved ==
  pc = "return" =>
    LET j == JoinedPieces(arg)
    IN ret = <<"-", " ">>
             \o (IF j # <<>> /\ j[Len(j)] = "." THEN SubSeq(j, 1, Len(j) - 1) ELSE j)
             \o LinkTail(arg)

\* C8 amended: the bullet is "- ", the joined pieces less all their trailing
\* periods, then the links.
C8_AllPeriodsRemoved ==
  pc = "return" =>
    LET j == JoinedPieces(arg)
        b == ItemBody(arg)
    IN /\ Len(ret) >= 2 + Len(LinkTail(arg))
       /\ SubSeq(ret, 1, 2) = <<"-", " ">>
       /\ SubSeq(ret, Len(ret) - Len(LinkTail(arg)) + 1, Len(ret)) = LinkTail(arg)
       /\ Len(b) <= Len(j)
       /\ b = SubSeq(j, 1, Len(b))
       /\ \A k \in (Len(b) + 1)..Len(j) : j[k] = "."
       /\ b = <<>> \/ b[Len(b)] # "."

\* the joined pieces end in two periods or more, and the record has links
C8_Witness ==
  /\ pc = "return"
  /\ LET j == JoinedPieces(arg)
     IN Len(j) >= 2 /\ j[Len(j)] = "." /\ j[Len(j) - 1] = "."
  /\ LinkTail(arg) # <<>>
  /\ K_title \in DOMAIN arg.fields

====
